---- MODULE Spec2Model ----
(***************************************************************************)
(* A model of pope_eval.py: the POPE evaluation harness.                   *)
(*                                                                         *)
(*   recorder   (lines 144-156)  free text -> yes/no label                 *)
(*   print_acc  (lines 105-141)  confusion counts, metrics, report file    *)
(*   main       (lines 161-266)  load, partition, materialize, edit, ...   *)
(*                                                                         *)
(* Text is a sequence of one-character strings, a Python list is a         *)
(* sequence, a Python dict is a function whose DOMAIN is its key set, and  *)
(* a Python float is the exact fraction <<numerator, denominator>> that    *)
(* the division is applied to.                                             *)
(***************************************************************************)
EXTENDS Integers, Sequences, FiniteSets, TLC

VARIABLES
    pc,            \* position of the running script / call
    error,         \* the exception that ended it, NoError while none
    args,          \* parsed command line: model, pope_type, seed
    model_built,   \* model_cls.from_config(...) has run       (line 181)
    opened,        \* open(args.pope_path, 'r') has run            (line 195)
    source,        \* the lines of the benchmark file, once read (line 195)
    id_list,       \* line 193 / 200 / 209
    test_list,     \* line 208
    test_data,     \* line 210
    img_name_dict, \* line 192 / 198
    target_dict,   \* line 187 / 199
    halle_dict,    \* line 189 / 202, 205
    res_dict,      \* line 190 / 203, 206
    query_dict,    \* line 188 / 207
    img_dict,      \* line 191 / 220
    requests,      \* line 222: <<the dict>>, <<>> before it is built
    edits,         \* number of halle_editor.edit calls that returned (line 227)
    out,           \* the batch of responses handed to recorder
    prior,         \* pred_list as it was when recorder was called
    pred_list,     \* line 237 / recorder's and print_acc's argument
    label_list,    \* line 237 / print_acc's argument
    counts,        \* line 123: <<the TP, FP, TN, FN printed>>, <<>> before
    yes_count,     \* pred_list.count(1) of line 108, -1 before
    files,         \* report files: <<pope_type, seed>> -> sequence of records
    calls,         \* number of print_acc calls made
    succ           \* <<pope_type, seed>> -> number of print_acc calls that returned

vars == <<pc, error, args, model_built, opened, source, id_list, test_list, test_data,
          img_name_dict, target_dict, halle_dict, res_dict, query_dict, img_dict,
          requests, edits, out, prior, pred_list, label_list, counts, yes_count,
          files, calls, succ>>

mainVars == <<model_built, opened, source, id_list, test_list, test_data,
              img_name_dict, target_dict, halle_dict, res_dict, query_dict,
              img_dict, requests, edits>>

accVars == <<counts, yes_count, files, calls, succ>>

----------------------------------------------------------------------------
(* Bounds of the model.                                                    *)

\* longest response drawn character by character
MaxLen == 3
\* longest batch of responses handed to one recorder call
MaxBatch == 2
\* longest prediction / label list handed to print_acc on its own
MaxPreds == 4
\* most print_acc calls in one history of the report files
MaxRuns == 2
\* most benchmark lines beyond the smallest file that can be partitioned
MaxExtra == 1
\* most benchmark lines whose question_id repeats an earlier line's
MaxDup == 2

(* The sizes of the partition, scaled down so that every file shape can be *)
(* enumerated; the script's values are in parentheses.                     *)

\* id_list[:2000] and id_list[2000:], lines 208-209  (2000)
EditPoolSize == 3
\* random.sample(id_list[:2000], 1000), line 209     (1000)
EditSampleSize == 2
\* random.sample(test_list, 500), line 210            (500)
TestSampleSize == 2

----------------------------------------------------------------------------
(* Sequence helpers.                                                       *)

Range(s) == {s[i] : i \in 1..Len(s)}

RECURSIVE SeqsUpTo(_, _)
SeqsUpTo(S, n) ==
    IF n = 0 THEN {<<>>}
    ELSE LET shorter == SeqsUpTo(S, n - 1)
         IN  shorter \cup {Append(s, x) : s \in {t \in shorter : Len(t) = n - 1}, x \in S}

\* str.endswith
EndsWith(word, suffix) ==
    /\ Len(word) >= Len(suffix)
    /\ SubSeq(word, Len(word) - Len(suffix) + 1, Len(word)) = suffix

\* str.replace(ch, '') for a one-character ch
RECURSIVE Remove(_, _)
Remove(line, ch) ==
    IF line = <<>> THEN <<>>
    ELSE IF Head(line) = ch THEN Remove(Tail(line), ch)
    ELSE <<Head(line)>> \o Remove(Tail(line), ch)

\* str.split(' '): every single space separates, empty words are kept
RECURSIVE SplitFrom(_, _, _, _)
SplitFrom(line, i, word, words) ==
    IF i > Len(line) THEN Append(words, word)
    ELSE IF line[i] = " " THEN SplitFrom(line, i + 1, <<>>, Append(words, word))
    ELSE SplitFrom(line, i + 1, Append(word, line[i]), words)

Split(line) == SplitFrom(line, 1, <<>>, <<>>)

----------------------------------------------------------------------------
(* recorder, lines 144-156.                                                *)

NEG_WORDS == {<<"N", "o">>, <<"n", "o", "t">>, <<"n", "o">>, <<"N", "O">>}

Contraction == <<"n", "'", "t">>

\* a plausible slip: `"no" in word` (substring) instead of `word in NEG_WORDS`
InNegWordsBySubstring(word) ==
    \E w \in NEG_WORDS : \E i \in 1..Len(word) :
        i + Len(w) - 1 <= Len(word) /\ SubSeq(word, i, i + Len(w) - 1) = w

\* `word in NEG_WORDS`, line 151
InNegWords(word) == word \in NEG_WORDS

\* the label appended for one line of the batch, lines 148-154
Label(line) ==
    LET stripped == Remove(Remove(line, "."), ",")
        words    == Split(stripped)
    IN  IF \/ \E k \in 1..Len(words) : InNegWords(words[k])
           \/ \E k \in 1..Len(words) : EndsWith(words[k], Contraction)
        THEN 0 ELSE 1

RECURSIVE recorder(_, _)
recorder(batch, preds) ==
    IF batch = <<>> THEN preds
    ELSE recorder(Tail(batch), Append(preds, Label(Head(batch))))

----------------------------------------------------------------------------
(* Values the variables hold while the part of the script they belong to  *)
(* has not run.                                                            *)

PopeTypeArgs == {"random", "adversarial"}

Seeds == {0, 1}

Keys == PopeTypeArgs \X Seeds

EmptyDict == <<>>

NoError == [type |-> "", at |-> ""]

MainIdle ==
    /\ model_built = FALSE
    /\ opened = FALSE
    /\ source = <<>>
    /\ id_list = <<>>
    /\ test_list = <<>>
    /\ test_data = <<>>
    /\ img_name_dict = EmptyDict
    /\ target_dict = EmptyDict
    /\ halle_dict = EmptyDict
    /\ res_dict = EmptyDict
    /\ query_dict = EmptyDict
    /\ img_dict = EmptyDict
    /\ requests = <<>>
    /\ edits = 0

AccIdle ==
    /\ counts = <<>>
    /\ yes_count = -1
    /\ files = [k \in Keys |-> <<>>]
    /\ calls = 0
    /\ succ = [k \in Keys |-> 0]

----------------------------------------------------------------------------
(* recorder on its own: any batch, any prior list.                         *)

Alphabet == {"N", "O", "n", "o", "t", "'", "k", " ", ".", ","}

\* "The cat is not in the picture"
TheCatIsNot ==
    <<"T", "h", "e", " ", "c", "a", "t", " ", "i", "s", " ", "n", "o", "t",
      " ", "i", "n", " ", "t", "h", "e", " ", "p", "i", "c", "t", "u", "r",
      "e">>

\* "Yes, there is a dog."
YesThereIs ==
    <<"Y", "e", "s", ",", " ", "t", "h", "e", "r", "e", " ", "i", "s", " ",
      "a", " ", "d", "o", "g", ".">>

\* "I don't see one"
IDontSeeOne ==
    <<"I", " ", "d", "o", "n", "'", "t", " ", "s", "e", "e", " ", "o", "n",
      "e">>

\* "Yoko"
Yoko == <<"Y", "o", "k", "o">>

\* "I know."
IKnow == <<"I", " ", "k", "n", "o", "w", ".">>

\* "No, it is"
NoComma == <<"N", "o", ",", " ", "i", "t", " ", "i", "s">>

Phrases == {TheCatIsNot, YesThereIs, IDontSeeOne, Yoko, IKnow, NoComma, <<>>}

\* one response spelled from Alphabet, or a batch of phrases
Batches ==
    {<<s>> : s \in SeqsUpTo(Alphabet, MaxLen)} \cup SeqsUpTo(Phrases, MaxBatch)

Priors == {<<>>, <<0>>, <<1>>, <<1, 0>>}

InitRecorder ==
    /\ pc = "recorder"
    /\ error = NoError
    /\ args = [model |-> "minigpt4", pope_type |-> "random", seed |-> 0]
    /\ MainIdle
    /\ AccIdle
    /\ out \in Batches
    /\ prior \in Priors
    /\ pred_list = prior
    /\ label_list = <<>>

\* pred_list = recorder(out, pred_list), line 259
RecorderCall ==
    /\ pc = "recorder"
    /\ pred_list' = recorder(out, pred_list)
    /\ pc' = "recorder_ret"
    /\ UNCHANGED <<error, args, mainVars, accVars, out, prior, label_list>>

SpecRecorder == InitRecorder /\ [][RecorderCall]_vars

\* The characters of a word that are neither '.' nor ','.
Letters(word) == SelectSeq(word, LAMBDA c : c \notin {".", ","})

\* Some maximal space-free stretch line[i..j] is, once its '.' and ',' are
\* dropped, a negation word or a word ending in "n't".
HasNegationToken(line) ==
    \E i \in 1..(Len(line) + 1) : \E j \in 0..Len(line) :
        /\ i <= j + 1
        /\ i = 1 \/ line[i - 1] = " "
        /\ j = Len(line) \/ line[j + 1] = " "
        /\ \A k \in i..j : line[k] # " "
        /\ LET token == Letters(SubSeq(line, i, j))
           IN  token \in NEG_WORDS \/ EndsWith(token, Contraction)

\* C2: recorder returns the prior list followed by exactly one label per
\* response, in input order; the label is 0 exactly when a whole token
\* (after '.' and ',' are removed, split on single spaces) is one of
\* "No", "not", "no", "NO" or ends with "n't", and 1 otherwise; "Yoko" and
\* other tokens that only contain such a word are labelled 1.
C2_RecorderLabels ==
    pc = "recorder_ret" =>
        /\ Len(pred_list) = Len(prior) + Len(out)
        /\ SubSeq(pred_list, 1, Len(prior)) = prior
        /\ \A i \in 1..Len(out) :
            /\ pred_list[Len(prior) + i] = (IF HasNegationToken(out[i]) THEN 0 ELSE 1)
            /\ out[i] \in {Yoko, IKnow, <<"k", "n", "o">>, <<"n", "o", "k">>}
                   => pred_list[Len(prior) + i] = 1

C2_Witness ==
    /\ pc = "recorder_ret"
    /\ prior = <<1, 0>>
    /\ out = <<IKnow, IDontSeeOne>>
    /\ pred_list = <<1, 0, 1, 0>>

----------------------------------------------------------------------------
(* print_acc, lines 105-141.                                               *)

RECURSIVE GCD(_, _)
GCD(a, b) == IF b = 0 THEN a ELSE GCD(b, a % b)

\* the value of n / d, d > 0, as a fraction in lowest terms
Float(n, d) ==
    LET g == GCD(n, d)
    IN  IF g = 0 THEN <<n, d>> ELSE <<n \div g, d \div g>>

\* pred_list.count(1), line 108
RECURSIVE Count(_, _)
Count(list, x) ==
    IF list = <<>> THEN 0
    ELSE (IF Head(list) = x THEN 1 ELSE 0) + Count(Tail(list), x)

\* a plausible slip: the FP and FN branches exchanged
CellSwapped(pred, label) ==
    IF pred = 1 /\ label = 1 THEN "TP"
    ELSE IF pred = 1 /\ label = 0 THEN "FN"
    ELSE IF pred = 0 /\ label = 0 THEN "TN"
    ELSE IF pred = 0 /\ label = 1 THEN "FP"
    ELSE "none"

\* the if/elif chain of lines 113-120, pos = 1 and neg = 0
Cell(pred, label) ==
    IF pred = 1 /\ label = 1 THEN "TP"
    ELSE IF pred = 1 /\ label = 0 THEN "FP"
    ELSE IF pred = 0 /\ label = 0 THEN "TN"
    ELSE IF pred = 0 /\ label = 1 THEN "FN"
    ELSE "none"

\* the loop of lines 111-120 over zip(pred_list, label_list), from position i
RECURSIVE Confusion(_, _, _, _)
Confusion(preds, labels, i, c) ==
    IF i > Len(preds) \/ i > Len(labels) THEN c
    ELSE LET cell == Cell(preds[i], labels[i])
         IN  Confusion(preds, labels, i + 1,
                       IF cell = "none" THEN c ELSE [c EXCEPT ![cell] = @ + 1])

ZeroCounts == [TP |-> 0, TN |-> 0, FP |-> 0, FN |-> 0]

\* a plausible slip: a division that yields a value for a zero divisor
DivisionNeverRaises(d) == FALSE

\* Python's / raises ZeroDivisionError exactly for a zero divisor
DivisionRaises(d) == d = 0

ZeroDivision(divisor) == [type |-> "ZeroDivisionError", at |-> divisor]

\* What one call does up to line 138: the exception raised (NoError when it
\* returns), what lines 122-123 printed, pred_list.count(1), and img_save.
print_acc(preds, labels) ==
    LET yes == Count(preds, 1)
        c   == Confusion(preds, labels, 1, ZeroCounts)
        p   == Float(c.TP, c.TP + c.FP)
        r   == Float(c.TP, c.TP + c.FN)
        \* precision + recall and 2*precision*recall over the common denominator
        sum == p[1] * r[2] + r[1] * p[2]
        img_save ==
            [Accuracy  |-> Float(c.TP + c.TN, c.TP + c.TN + c.FP + c.FN),
             Precision |-> p,
             Recall    |-> r,
             F1_score  |-> Float(2 * p[1] * r[1], sum),
             Yes_ratio |-> Float(yes, Len(preds))]
        raised(divisor) ==
            [error |-> ZeroDivision(divisor), printed |-> <<c>>, yes |-> yes,
             img_save |-> <<>>]
    IN  IF DivisionRaises(Len(preds))
        THEN [error |-> ZeroDivision("len(pred_list)"), printed |-> <<>>,
              yes |-> yes, img_save |-> <<>>]
        ELSE IF DivisionRaises(c.TP + c.FP) THEN raised("float(TP + FP)")
        ELSE IF DivisionRaises(c.TP + c.FN) THEN raised("float(TP + FN)")
        ELSE IF DivisionRaises(sum) THEN raised("(precision + recall)")
        ELSE IF DivisionRaises(c.TP + c.TN + c.FP + c.FN)
             THEN raised("(TP + TN + FP + FN)")
        ELSE [error |-> NoError, printed |-> <<c>>, yes |-> yes,
              img_save |-> <<img_save>>]

\* '{}_seed{}.jsonl'.format(args.pope_type, args.seed), line 139
ReportPath(a) == <<a.pope_type, a.seed>>

\* a plausible slip: open(..., "w"), which truncates the file
WriteTruncating(file, record) == <<record>>

\* open(..., "a"); json.dump(img_save, f); f.write('\n'), lines 139-141
WriteLine(file, record) == Append(file, record)

\* The effect of one print_acc(preds, labels, a) call on the report files,
\* the printed counts and the exception state.
PrintAccCall(preds, labels, a) ==
    LET res == print_acc(preds, labels)
    IN  /\ error' = res.error
        /\ counts' = res.printed
        /\ yes_count' = res.yes
        /\ calls' = calls + 1
        /\ IF res.error = NoError
           THEN /\ files' = [files EXCEPT ![ReportPath(a)] = WriteLine(@, res.img_save[1])]
                /\ succ' = [succ EXCEPT ![ReportPath(a)] = @ + 1]
           ELSE UNCHANGED <<files, succ>>

----------------------------------------------------------------------------
(* print_acc on its own: a history of runs that share the report files.    *)

AccArgs == [model : {"minigpt4"}, pope_type : PopeTypeArgs, seed : Seeds]

BitLists == SeqsUpTo({0, 1}, MaxPreds)

\* <<pred_list, label_list>> of the runs after the first of a history
SampleRuns ==
    {<<<<1, 1, 0, 0>>, <<1, 0, 0, 1>>>>, <<<<1>>, <<1>>>>, <<<<0, 0>>, <<1, 1>>>>}

InitAcc ==
    /\ pc = "shell"
    /\ error = NoError
    /\ args = [model |-> "minigpt4", pope_type |-> "random", seed |-> 0]
    /\ MainIdle
    /\ AccIdle
    /\ out = <<>>
    /\ prior = <<>>
    /\ pred_list = <<>>
    /\ label_list = <<>>

\* one process that calls print_acc(preds, labels, a) and ends
RunPrintAcc(preds, labels, a) ==
    /\ pred_list' = preds
    /\ label_list' = labels
    /\ args' = a
    /\ PrintAccCall(preds, labels, a)
    /\ pc' = IF print_acc(preds, labels).error = NoError
             THEN "print_acc_ret" ELSE "print_acc_raised"
    /\ UNCHANGED <<mainVars, out, prior>>

FirstRun ==
    /\ calls = 0
    /\ \E preds \in BitLists, labels \in BitLists, a \in AccArgs :
           RunPrintAcc(preds, labels, a)

LaterRun ==
    /\ calls > 0
    /\ calls < MaxRuns
    /\ \E run \in SampleRuns, a \in AccArgs : RunPrintAcc(run[1], run[2], a)

NextAcc == FirstRun \/ LaterRun

SpecAcc == InitAcc /\ [][NextAcc]_vars

\* positions of two equal-length lists where pred_list holds p and label_list l
Positions(preds, labels, p, l) ==
    {i \in 1..Len(preds) : preds[i] = p /\ labels[i] = l}

\* C3: for equal-length 0/1 lists print_acc counts every position in exactly
\* one of TP (1,1), FP (1,0), TN (0,0), FN (0,1): the counts are non-negative,
\* sum to the number of predictions, and the yes-count equals TP + FP.
C3_ConfusionCounts ==
    (counts # <<>> /\ Len(pred_list) = Len(label_list)) =>
        LET c == counts[1]
        IN  /\ c.TP = Cardinality(Positions(pred_list, label_list, 1, 1))
            /\ c.FP = Cardinality(Positions(pred_list, label_list, 1, 0))
            /\ c.TN = Cardinality(Positions(pred_list, label_list, 0, 0))
            /\ c.FN = Cardinality(Positions(pred_list, label_list, 0, 1))
            /\ c.TP >= 0 /\ c.FP >= 0 /\ c.TN >= 0 /\ c.FN >= 0
            /\ c.TP + c.FP + c.TN + c.FN = Len(pred_list)
            /\ yes_count = c.TP + c.FP

C3_Witness ==
    /\ pc = "print_acc_ret"
    /\ pred_list = <<1, 1, 0, 0>>
    /\ label_list = <<1, 0, 0, 1>>
    /\ counts = <<[TP |-> 1, TN |-> 1, FP |-> 1, FN |-> 1]>>
    /\ yes_count = 2

\* the divisors of the metrics that are zero for these lists
ZeroDenominators(preds, labels) ==
    LET TP == Cardinality(Positions(preds, labels, 1, 1))
        FP == Cardinality(Positions(preds, labels, 1, 0))
        FN == Cardinality(Positions(preds, labels, 0, 1))
    IN  (IF Len(preds) = 0 THEN {"len(pred_list)"} ELSE {})
        \cup (IF TP + FP = 0 THEN {"float(TP + FP)"} ELSE {})
        \cup (IF TP + FN = 0 THEN {"float(TP + FN)"} ELSE {})
        \cup (IF TP + FP > 0 /\ TP + FN > 0 /\ TP = 0
              THEN {"(precision + recall)"} ELSE {})

\* C4: a print_acc call on lists for which a metric denominator is zero
\* (no prediction, TP+FP = 0, TP+FN = 0 or precision+recall = 0) raises the
\* division error at a divisor that is zero, and that call leaves every
\* report file as it was.
C4_DegenerateFails ==
    [][(/\ calls' = calls + 1
        /\ Len(pred_list') = Len(label_list')
        /\ ZeroDenominators(pred_list', label_list') # {})
       => (/\ pc' = "print_acc_raised"
           /\ error'.type = "ZeroDivisionError"
           /\ error'.at \in ZeroDenominators(pred_list', label_list')
           /\ files' = files)]_vars

C4_Witness ==
    /\ pc = "print_acc_raised"
    /\ calls = 2
    /\ pred_list = <<0, 0>>
    /\ label_list = <<1, 1>>
    /\ error = [type |-> "ZeroDivisionError", at |-> "float(TP + FP)"]
    /\ Len(files[<<"random", 0>>]) = 1

\* C5: a print_acc call that returns appends exactly one record to the file
\* named by its perturbation type and seed, keeps the records that file held,
\* in order, and so every file holds one record per call that returned for
\* its type and seed.
C5_AppendOne ==
    [][(calls' = calls + 1 /\ error' = NoError)
       => LET k == <<args'.pope_type, args'.seed>>
          IN  /\ Len(files'[k]) = Len(files[k]) + 1
              /\ SubSeq(files'[k], 1, Len(files[k])) = files[k]
              /\ \A j \in Keys \ {k} : files'[j] = files[j]
              /\ \A j \in Keys : Len(files'[j]) = succ'[j]]_vars

C5_Witness ==
    /\ pc = "print_acc_ret"
    /\ calls = 2
    /\ args.pope_type = "adversarial"
    /\ args.seed = 1
    /\ succ[<<"adversarial", 1>>] = 2
    /\ Len(files[<<"adversarial", 1>>]) = 2
    /\ files[<<"adversarial", 1>>][1] # files[<<"adversarial", 1>>][2]

----------------------------------------------------------------------------
(* main, lines 161-231: configuration, model, load, partition, images,     *)
(* edit request, edit, exit.                                               *)

MODEL_EVAL_CONFIG_PATH ==
    [m \in {"minigpt4", "instructblip", "lrv_instruct", "shikra", "llava-1.5"}
        |-> <<"eval_configs/", m, "_eval.yaml">>]

POPE_PATH ==
    [t \in {"random", "popular", "adversarial"}
        |-> <<"pope_coco/coco_pope_", t, ".json">>]

INSTRUCTION_TEMPLATE ==
    [m \in {"minigpt4", "instructblip", "lrv_instruct", "shikra", "llava-1.5"} |->
        CASE m = "minigpt4" ->
                <<"###Human: <Img><ImageHere></Img> ", "<question>", " ###Assistant:">>
          [] m = "instructblip" -> <<"<ImageHere>", "<question>">>
          [] m = "lrv_instruct" ->
                <<"###Human: <Img><ImageHere></Img> ", "<question>", " ###Assistant:">>
          [] m = "shikra" ->
                <<"USER: <im_start><ImageHere><im_end> ", "<question>", " ASSISTANT:">>
          [] m = "llava-1.5" -> <<"USER: <ImageHere> ", "<question>", " ASSISTANT:">>]

\* template.replace("<question>", text), line 207
Render(template, text) ==
    [i \in 1..Len(template) |-> IF template[i] = "<question>" THEN text ELSE template[i]]

KeyError(lookup) == [type |-> "KeyError", at |-> lookup]

\* a plausible slip: the perturbation type looked up only when the file is opened
StartupErrorModelOnly(a) ==
    IF a.model \notin DOMAIN MODEL_EVAL_CONFIG_PATH
    THEN KeyError("MODEL_EVAL_CONFIG_PATH[args.model]")
    ELSE NoError

\* the dictionary lookups of lines 166-167
StartupError(a) ==
    IF a.model \notin DOMAIN MODEL_EVAL_CONFIG_PATH
    THEN KeyError("MODEL_EVAL_CONFIG_PATH[args.model]")
    ELSE IF a.pope_type \notin DOMAIN POPE_PATH
    THEN KeyError("POPE_PATH[args.pope_type]")
    ELSE NoError

\* dict[key] = value
Put(dict, key, value) ==
    [k \in DOMAIN dict \cup {key} |-> IF k = key THEN value ELSE dict[k]]

\* the loop of lines 195-207 from line i of the file on
RECURSIVE LoadLines(_, _, _, _)
LoadLines(lines, i, template, d) ==
    IF i > Len(lines) THEN d
    ELSE LET line == lines[i]
             id   == line.question_id
             yes  == line.label = "yes"
         IN  LoadLines(lines, i + 1, template,
                [img_name_dict |-> Put(d.img_name_dict, id, line.image),
                 target_dict   |-> Put(d.target_dict, id, line.label),
                 id_list       |-> Append(d.id_list, id),
                 halle_dict    |-> Put(d.halle_dict, id, IF yes THEN "no" ELSE "yes"),
                 res_dict      |-> Put(d.res_dict, id, IF yes THEN 1 ELSE 0),
                 query_dict    |-> Put(d.query_dict, id, Render(template, line.text))])

EmptyLoad ==
    [img_name_dict |-> EmptyDict, target_dict |-> EmptyDict, id_list |-> <<>>,
     halle_dict |-> EmptyDict, res_dict |-> EmptyDict, query_dict |-> EmptyDict]

\* list[:n]
Prefix(list, n) == IF n >= Len(list) THEN list ELSE SubSeq(list, 1, n)

\* a plausible slip: the holdout taken as the whole list
HoldoutWhole(list) == list

\* a plausible slip: the holdout cut at the sample size, id_list[1000:]
HoldoutFromSampleSize(list) ==
    IF EditSampleSize >= Len(list) THEN <<>>
    ELSE SubSeq(list, EditSampleSize + 1, Len(list))

\* id_list[2000:], line 208
HoldoutOf(list) ==
    IF EditPoolSize >= Len(list) THEN <<>>
    ELSE SubSeq(list, EditPoolSize + 1, Len(list))

\* id_list[:2000], line 209
EditPoolOf(list) == Prefix(list, EditPoolSize)

\* the sequences of k different positions of a list of length n
RECURSIVE Picks(_, _)
Picks(n, k) ==
    IF k = 0 THEN {<<>>}
    ELSE UNION {{Append(p, i) : i \in (1..n) \ Range(p)} : p \in Picks(n, k - 1)}

\* random.sample(population, k): every choice of k positions, in any order;
\* the seed set at line 97 decides which one
Sample(population, k) ==
    {[i \in 1..k |-> population[p[i]]] : p \in Picks(Len(population), k)}

\* random.sample raises ValueError when the sample is larger than the population
SampleRaises(population, k) == k > Len(population)

ValueError(call) == [type |-> "ValueError", at |-> call]

----------------------------------------------------------------------------
(* The inputs of a run.                                                    *)

\* the smallest file both random.sample calls accept  (2500)
MinRecords == EditPoolSize + TestSampleSize

MaxRecords == MinRecords + MaxExtra

\* question_id columns up to renaming: line i repeats an earlier id or takes
\* the next unused one, with at most MaxDup repeats
RECURSIVE IdColumns(_)
IdColumns(n) ==
    IF n = 0 THEN {<<>>}
    ELSE {c \in UNION {{Append(s, id) : id \in 1..(Cardinality(Range(s)) + 1)}
                        : s \in IdColumns(n - 1)}
            : Len(c) - Cardinality(Range(c)) <= MaxDup}

\* benchmark files: labels alternate, starting with either one
Sources ==
    UNION {{[i \in 1..n |->
                [question_id |-> col[i],
                 image       |-> <<"COCO_val2014_", i, ".jpg">>,
                 text        |-> <<"Is there an object ", i, " in the image?">>,
                 label       |-> IF (i + first) % 2 = 0 THEN "yes" ELSE "no"]]
             : col \in IdColumns(n), first \in {0, 1}}
           : n \in 0..MaxRecords}

\* "vicuna" and "hard" are values the script has no entry for
MainArgs == [model : {"llava-1.5", "vicuna"},
             pope_type : {"random", "adversarial", "hard"},
             seed : Seeds]

Init ==
    /\ pc = "start"
    /\ error = NoError
    /\ args \in MainArgs
    /\ MainIdle
    /\ AccIdle
    /\ out = <<>>
    /\ prior = <<>>
    /\ pred_list = <<>>
    /\ label_list = <<>>

Fail(e) == pc' = "failed" /\ error' = e

\* lines 163-170: parse_args, the two path lookups, Config, setup_seeds
Startup ==
    /\ pc = "start"
    /\ IF StartupError(args) # NoError
       THEN Fail(StartupError(args))
       ELSE pc' = "init_model" /\ UNCHANGED error
    /\ UNCHANGED <<args, mainVars, accVars, out, prior, pred_list, label_list>>

\* lines 176-186: the model is constructed
InitModel ==
    /\ pc = "init_model"
    /\ model_built' = TRUE
    /\ pc' = "load"
    /\ UNCHANGED <<error, args, opened, source, id_list, test_list, test_data,
                   img_name_dict, target_dict, halle_dict, res_dict, query_dict,
                   img_dict, requests, edits, accVars, out, prior, pred_list,
                   label_list>>

\* lines 187-207: the benchmark file is read line by line into the dicts
Load ==
    /\ pc = "load"
    /\ \E lines \in Sources :
        LET d == LoadLines(lines, 1, INSTRUCTION_TEMPLATE[args.model], EmptyLoad)
        IN  /\ opened' = TRUE
            /\ source' = lines
            /\ id_list' = d.id_list
            /\ img_name_dict' = d.img_name_dict
            /\ target_dict' = d.target_dict
            /\ halle_dict' = d.halle_dict
            /\ res_dict' = d.res_dict
            /\ query_dict' = d.query_dict
    /\ pc' = "partition"
    /\ UNCHANGED <<error, args, model_built, test_list, test_data, img_dict,
                   requests, edits, accVars, out, prior, pred_list, label_list>>

\* lines 208-210: holdout pool, edit sample, test sample
Partition ==
    /\ pc = "partition"
    /\ test_list' = HoldoutOf(id_list)
    /\ IF SampleRaises(EditPoolOf(id_list), EditSampleSize)
       THEN /\ Fail(ValueError("random.sample(id_list[:2000],1000)"))
            /\ UNCHANGED <<id_list, test_data>>
       ELSE /\ id_list' \in Sample(EditPoolOf(id_list), EditSampleSize)
            /\ IF SampleRaises(test_list', TestSampleSize)
               THEN /\ Fail(ValueError("random.sample(test_list,500)"))
                    /\ UNCHANGED test_data
               ELSE /\ test_data' \in Sample(test_list', TestSampleSize)
                    /\ pc' = "materialize"
                    /\ UNCHANGED error
    /\ UNCHANGED <<args, model_built, opened, source, img_name_dict, target_dict,
                   halle_dict, res_dict, query_dict, img_dict, requests, edits,
                   accVars, out, prior, pred_list, label_list>>

\* the loop of lines 211-220 from position i on, with the images in `absent`
\* in neither directory: the dict built and the exception, if any
RECURSIVE LoadImages(_, _, _, _)
LoadImages(ids, i, absent, images) ==
    IF i > Len(ids) THEN [img_dict |-> images, error |-> NoError]
    ELSE IF img_name_dict[ids[i]] \in absent
    THEN [img_dict |-> images,
          error |-> [type |-> "FileNotFoundError", at |-> "Image.open(image_path)"]]
    ELSE LoadImages(ids, i + 1, absent, Put(images, ids[i], img_name_dict[ids[i]]))

\* lines 211-220: the image of every edit id is read, from args.data_path or
\* from the fallback directory
Materialize ==
    /\ pc = "materialize"
    /\ \E absent \in SUBSET {img_name_dict[id] : id \in Range(id_list)} :
        LET r == LoadImages(id_list, 1, absent, img_dict)
        IN  /\ img_dict' = r.img_dict
            /\ IF r.error # NoError
               THEN Fail(r.error)
               ELSE pc' = "build" /\ UNCHANGED error
    /\ UNCHANGED <<args, model_built, opened, source, id_list, test_list,
                   test_data, img_name_dict, target_dict, halle_dict, res_dict,
                   query_dict, requests, edits, accVars, out, prior, pred_list,
                   label_list>>

\* lines 222-226: the request dict and the editor
BuildRequests ==
    /\ pc = "build"
    /\ requests' = <<[id |-> id_list, image |-> img_dict, prompt |-> query_dict,
                      target |-> target_dict, halle |-> halle_dict]>>
    /\ pc' = "edit"
    /\ UNCHANGED <<error, args, model_built, opened, source, id_list, test_list,
                   test_data, img_name_dict, target_dict, halle_dict, res_dict,
                   query_dict, img_dict, edits, accVars, out, prior, pred_list,
                   label_list>>

\* lines 227-230: the editor returns an edited model, which is saved, or raises
ApplyEdit ==
    /\ pc = "edit"
    /\ \/ /\ edits' = edits + 1
          /\ pc' = "edited"
          /\ UNCHANGED error
       \/ /\ Fail([type |-> "EditorError", at |-> "halle_editor.edit(args)"])
          /\ UNCHANGED edits
    /\ UNCHANGED <<args, model_built, opened, source, id_list, test_list,
                   test_data, img_name_dict, target_dict, halle_dict, res_dict,
                   query_dict, img_dict, requests, accVars, out, prior,
                   pred_list, label_list>>

\* line 231: exit()
Exit ==
    /\ pc = "edited"
    /\ pc' = "exited"
    /\ UNCHANGED <<error, args, mainVars, accVars, out, prior, pred_list, label_list>>

Next ==
    \/ Startup
    \/ InitModel
    \/ Load
    \/ Partition
    \/ Materialize
    \/ BuildRequests
    \/ ApplyEdit
    \/ Exit

Spec == Init /\ [][Next]_vars

----------------------------------------------------------------------------
(* main, lines 233-266: the evaluation that follows the edit when the      *)
(* exit() of line 231 is not taken (the edit-and-evaluate mode).           *)

\* what model.generate returns for one image and prompt, line 247
GenerateOutputs == {<<YesThereIs>>, <<NoComma>>}

\* lines 233-237
StartEval ==
    /\ pc = "edited"
    /\ pred_list' = <<>>
    /\ label_list' = <<>>
    /\ pc' = "eval"
    /\ UNCHANGED <<error, args, mainVars, accVars, out, prior>>

\* one pass of the loop of lines 238-259, for the next id of test_data
EvalOne ==
    /\ pc = "eval"
    /\ Len(label_list) < Len(test_data)
    /\ LET id == test_data[Len(label_list) + 1]
       IN  IF id \notin DOMAIN img_dict
           THEN /\ Fail(KeyError("img_dict[id]"))
                /\ UNCHANGED <<out, prior, pred_list, label_list>>
           ELSE IF id \notin DOMAIN query_dict
           THEN /\ Fail(KeyError("query_dict[id]"))
                /\ UNCHANGED <<out, prior, pred_list, label_list>>
           ELSE IF id \notin DOMAIN res_dict
           THEN /\ Fail(KeyError("res_dict[id]"))
                /\ UNCHANGED <<out, prior, pred_list, label_list>>
           ELSE /\ label_list' = Append(label_list, res_dict[id])
                /\ out' \in GenerateOutputs
                /\ prior' = pred_list
                /\ pred_list' = recorder(out', pred_list)
                /\ UNCHANGED <<pc, error>>
    /\ UNCHANGED <<args, mainVars, accVars>>

\* lines 262-266: pred_list_s is still empty, so at most one print_acc call
Report ==
    /\ pc = "eval"
    /\ Len(label_list) = Len(test_data)
    /\ IF Len(pred_list) # 0
       THEN /\ PrintAccCall(pred_list, label_list, args)
            /\ pc' = IF print_acc(pred_list, label_list).error = NoError
                     THEN "done" ELSE "failed"
       ELSE /\ pc' = "done"
            /\ UNCHANGED <<error, accVars>>
    /\ UNCHANGED <<args, mainVars, out, prior, pred_list, label_list>>

NextEval ==
    \/ Startup
    \/ InitModel
    \/ Load
    \/ Partition
    \/ Materialize
    \/ BuildRequests
    \/ ApplyEdit
    \/ StartEval
    \/ EvalOne
    \/ Report

SpecEval == Init /\ [][NextEval]_vars

----------------------------------------------------------------------------
(* Properties of main.                                                     *)

IdsOf(lines) == [i \in 1..Len(lines) |-> lines[i].question_id]

UniqueIds(lines) ==
    \A i, j \in 1..Len(lines) : i # j => lines[i].question_id # lines[j].question_id

\* the ids of the first EditPoolSize lines, and of the lines after them
FirstIds(lines) == {lines[i].question_id : i \in 1..Len(lines) \cap 1..EditPoolSize}

RestIds(lines) == {lines[i].question_id : i \in (EditPoolSize + 1)..Len(lines)}

NoRepeats(list) == Cardinality(Range(list)) = Len(list)

\* the partition step has run and both samples were drawn
PartitionPassed == opened /\ pc # "partition" /\ error.type # "ValueError"

NothingWritten == calls = 0 /\ \A k \in Keys : files[k] = <<>>

\* C1: for a file of at least MinRecords lines with unique ids, after the
\* partition step the edit sample holds EditSampleSize distinct ids of the
\* first EditPoolSize lines, the test sample holds TestSampleSize distinct
\* ids of the later lines, the samples share no id, and the two pools are
\* disjoint and cover every id once.
C1_PartitionSamples ==
    (PartitionPassed /\ UniqueIds(source) /\ Len(source) >= MinRecords) =>
        /\ Len(id_list) = EditSampleSize
        /\ NoRepeats(id_list)
        /\ Range(id_list) \subseteq FirstIds(source)
        /\ Len(test_data) = TestSampleSize
        /\ NoRepeats(test_data)
        /\ Range(test_data) \subseteq RestIds(source)
        /\ Range(id_list) \cap Range(test_data) = {}
        /\ Range(test_list) = RestIds(source)
        /\ FirstIds(source) \cap Range(test_list) = {}
        /\ FirstIds(source) \cup Range(test_list) = Range(IdsOf(source))
        /\ EditPoolSize + Len(test_list) = Len(source)

C1_Witness ==
    /\ pc = "build"
    /\ Len(source) = MinRecords + 1
    /\ UniqueIds(source)
    /\ id_list = <<3, 1>>
    /\ test_data = <<6, 4>>

\* C7: a run whose model family or perturbation type is not a known one
\* ends with a fatal error at startup: no model was constructed, the
\* benchmark file was not opened, no edit was applied, no report written.
C7_UnknownArgsFatal ==
    (/\ pc # "start"
     /\ \/ args.model \notin {"minigpt4", "instructblip", "lrv_instruct", "shikra",
                              "llava-1.5"}
        \/ args.pope_type \notin {"random", "popular", "adversarial"})
    => /\ pc = "failed"
       /\ error.type = "KeyError"
       /\ ~model_built
       /\ ~opened
       /\ requests = <<>>
       /\ edits = 0
       /\ NothingWritten

C7_Witness ==
    /\ pc = "failed"
    /\ args.model = "llava-1.5"
    /\ args.pope_type = "hard"
    /\ error = KeyError("POPE_PATH[args.pope_type]")
    /\ ~model_built

\* C8: for a file of fewer than MinRecords lines the partition step fails
\* (no image read, no edit applied, no prediction made, no report written),
\* and for a file of at least MinRecords lines with unique ids it does not.
C8_PartitionSizeCheck ==
    (opened /\ pc # "partition") =>
        /\ Len(source) < MinRecords =>
              /\ pc = "failed"
              /\ error.type = "ValueError"
              /\ img_dict = EmptyDict
              /\ requests = <<>>
              /\ edits = 0
              /\ pred_list = <<>>
              /\ NothingWritten
        /\ (Len(source) >= MinRecords /\ UniqueIds(source)) =>
              /\ error.type # "ValueError"
              /\ Len(test_data) = TestSampleSize

C8_Witness ==
    /\ pc = "failed"
    /\ Len(source) = MinRecords - 1
    /\ Len(test_list) = TestSampleSize - 1
    /\ Len(id_list) = EditSampleSize
    /\ error = ValueError("random.sample(test_list,500)")

\* C9: a run never reaches the edit request or the edit with an id list that
\* repeats an id, or with an id that is in both the edit pool and the
\* holdout pool.
C9_NoDuplicateReachesEdit ==
    pc \in {"build", "edit", "edited", "exited"} =>
        /\ NoRepeats(id_list)
        /\ FirstIds(source) \cap Range(test_list) = {}

====
